---- MODULE Spec2Model ----
(***************************************************************************)
(* State-machine model of src/main.py: the FastAPI backend with the        *)
(* diagnostic handler GET /test (test_database) and the checkout handler   *)
(* POST /checkout/create-session (create_checkout_session).                *)
(*                                                                         *)
(* Conventions.  Python None of an Optional[str] / os.getenv result is     *)
(* the string None below; an Optional[dict] is a sequence of zero (None)   *)
(* or one dict.  The status glyphs of the /test strings are written as     *)
(* the ASCII tags "[ok]", "[x]" and "[!]" (the module is ASCII only).      *)
(***************************************************************************)
EXTENDS Integers, Sequences, FiniteSets, TLC

VARIABLES
    env,              \* os.environ: variable name -> value or None
    stripe_api_key,   \* the module global stripe.api_key
    api_key_writer,   \* the request that last assigned stripe.api_key (0: nobody)
    pc,               \* per request: position in create_checkout_session
    body,             \* per request: the JSON body as received
    payload,          \* per request: the parsed CheckoutRequest
    stripe_secret,    \* per request: local stripe_secret
    line_items,       \* per request: local line_items
    success_url,      \* per request: local success_url
    cancel_url,       \* per request: local cancel_url
    exc,              \* per request: the exception raised inside the try (<<>>: none)
    calls,            \* per request: its calls of stripe.checkout.Session.create
    result,           \* per request: the HTTP result (<<>>: none yet)
    database,         \* the state of the optional `database` module and its db
    tpc,              \* position of the GET /test request in test_database
    response,         \* test_database's local response mapping
    list_calls,       \* how often this GET /test request called list_collection_names
    test_result       \* the HTTP result of the GET /test request (<<>>: none yet)

vars == <<env, stripe_api_key, api_key_writer, pc, body, payload, stripe_secret,
          line_items, success_url, cancel_url, exc, calls, result,
          database, tpc, response, list_calls, test_result>>

checkoutVars == <<stripe_api_key, api_key_writer, pc, body, payload, stripe_secret,
                  line_items, success_url, cancel_url, exc, calls, result>>

testVars == <<database, tpc, response, list_calls, test_result>>

(***************************************************************************)
(* Bounds                                                                  *)
(***************************************************************************)
MaxItems == 2

NumReqs == 2

MaxCollections == 12

MaxErrLen == 52

Reqs == 1..NumReqs

(***************************************************************************)
(* Python values                                                           *)
(***************************************************************************)
None == "<None>"

Absent == "<absent>"

Truthy(v) == v # None /\ v # ""

Min(a, b) == IF a < b THEN a ELSE b

\* s[:n] of a str or a list
SlicePrefix(s, n) == SubSeq(s, 1, Min(Len(s), n))

OrElse(a, b) == IF Truthy(a) THEN a ELSE b

\* os.getenv(name)
Getenv(e, name) == e[name]

\* os.getenv(name, default)
GetenvDefault(e, name, default) == IF e[name] = None THEN default ELSE e[name]

EnvNames == {"STRIPE_SECRET_KEY", "FRONTEND_URL", "DATABASE_URL", "DATABASE_NAME"}

EnvValues(name) ==
    CASE name = "STRIPE_SECRET_KEY" -> {None, "", "sk_test_A", "sk_test_B"}
      [] name = "FRONTEND_URL"      -> {None, "", "https://shop.example"}
      [] name = "DATABASE_URL"      -> {None, "", "mongodb://user:pw@host:27017"}
      [] name = "DATABASE_NAME"     -> {None, "", "shopdb"}

\* Exceptions: [class, msg].  str(e) is the message.
Str(e) == e.msg

\* The base class of each exception class that can be raised here.
Base(class) ==
    CASE class = "ModuleNotFoundError" -> "ImportError"
      [] class = "ImportError"         -> "Exception"
      [] class = "RuntimeError"        -> "Exception"
      [] class = "AuthenticationError" -> "Exception"
      [] class = "APIConnectionError"  -> "Exception"
      [] class = "Exception"           -> "BaseException"
      [] OTHER                         -> "object"

\* isinstance(e, class), which is what an `except class` clause tests
IsInstance(e, class) ==
    class \in {e.class, Base(e.class), Base(Base(e.class)), Base(Base(Base(e.class)))}

(***************************************************************************)
(* CheckoutItem / CheckoutRequest (request validation)                     *)
(***************************************************************************)
RawWidget == [id |-> "1", name |-> "Widget", unit_amount |-> 500, quantity |-> 2]

RawGadget == [id |-> "2", name |-> "Gadget", unit_amount |-> 0,
              image |-> "https://img.example/g.png",
              metadata |-> [color |-> "red"]]

RawBroken == [id |-> "3", name |-> "Broken"]

RawItems == {RawWidget, RawGadget, RawBroken}

Field(raw, key, default) == IF key \in DOMAIN raw THEN raw[key] ELSE default

\* CheckoutItem: id, name, unit_amount are required
ValidItem(raw) == {"id", "name", "unit_amount"} \subseteq DOMAIN raw

CheckoutItem(raw) ==
    [id          |-> raw.id,
     name        |-> raw.name,
     unit_amount |-> raw.unit_amount,
     quantity    |-> Field(raw, "quantity", 1),
     image       |-> Field(raw, "image", None),
     metadata    |-> IF "metadata" \in DOMAIN raw THEN <<raw.metadata>> ELSE <<>>]

\* CheckoutRequest: items is required
ValidBody(b) ==
    /\ "items" \in DOMAIN b
    /\ \A i \in 1..Len(b.items) : ValidItem(b.items[i])

CheckoutRequest(b) ==
    [items       |-> [i \in 1..Len(b.items) |-> CheckoutItem(b.items[i])],
     currency    |-> Field(b, "currency", "usd"),
     success_url |-> Field(b, "success_url", None),
     cancel_url  |-> Field(b, "cancel_url", None)]

NoPayload == [items |-> <<>>, currency |-> "", success_url |-> None, cancel_url |-> None]

Optional(key, v) == IF v = Absent THEN <<>> ELSE key :> v

RawBody(items, cur, s, c) ==
    ("items" :> items) @@ Optional("currency", cur)
        @@ Optional("success_url", s) @@ Optional("cancel_url", c)

ItemSeqs == UNION {[1..n -> RawItems] : n \in 0..MaxItems}

Bodies ==
    {RawBody(items, cur, s, c) :
        items \in ItemSeqs, cur \in {Absent, "eur"},
        s \in {Absent, "", "https://shop.example/thanks"},
        c \in {Absent, "", "https://shop.example/cart"}}
    \cup {[currency |-> "usd"]}

NoBody == [currency |-> ""]

(***************************************************************************)
(* create_checkout_session                                                 *)
(***************************************************************************)
DictTruthy(m) == m # <<>> /\ DOMAIN m[1] # {}

ProductData(item) ==
    [name |-> item.name]
        @@ (IF Truthy(item.image) THEN "images" :> <<item.image>> ELSE <<>>)
        @@ (IF DictTruthy(item.metadata) THEN "metadata" :> item.metadata[1] ELSE <<>>)

LineItem(p, item) ==
    [price_data |-> [currency     |-> p.currency,
                     product_data |-> ProductData(item),
                     unit_amount  |-> item.unit_amount],
     quantity   |-> item.quantity]

\* the for loop over payload.items, appending to acc from item i on
RECURSIVE AppendItems(_, _, _)
AppendItems(p, acc, i) ==
    IF i > Len(p.items) THEN acc
    ELSE AppendItems(p, Append(acc, LineItem(p, p.items[i])), i + 1)

\* a loop that skips the items whose unit_amount is falsy (0)
RECURSIVE AppendPricedItems(_, _, _)
AppendPricedItems(p, acc, i) ==
    IF i > Len(p.items) THEN acc
    ELSE AppendPricedItems(p,
            IF p.items[i].unit_amount = 0 THEN acc
            ELSE Append(acc, LineItem(p, p.items[i])), i + 1)

LineItemsSkippingFree(p) == AppendPricedItems(p, <<>>, 1)

LineItems(p) == AppendItems(p, <<>>, 1)

\* `if stripe_secret is None` in place of `if not stripe_secret`
IsNoneOnly(secret) == secret = None

\* `if not stripe_secret`
NotConfigured(secret) == ~Truthy(secret)

\* `(supplied or base) + marker`: the other reading of the precedence
ResolveUrlLoose(supplied, base, marker) == OrElse(supplied, base) \o marker

\* `supplied or base + marker`
ResolveUrl(supplied, base, marker) == OrElse(supplied, base \o marker)

FrontendDefault == "http://localhost:3000"

\* an `except StripeError` clause in place of `except Exception`
CatchesProviderOnly(e) ==
    e.class \in {"AuthenticationError", "APIConnectionError"}

\* `except Exception as e`
Catches(e) == IsInstance(e, "Exception")

HttpResult(status, b) == <<[status |-> status, body |-> b]>>

NotConfiguredDetail ==
    "Stripe is not configured. Please set STRIPE_SECRET_KEY in the backend environment."

StripeMissing == [class |-> "ModuleNotFoundError", msg |-> "No module named 'stripe'"]

ProviderErrors ==
    {[class |-> "AuthenticationError", msg |-> "Invalid API Key provided"],
     [class |-> "APIConnectionError", msg |-> "Network error communicating with Stripe"]}

SessionUrls == {"https://checkout.stripe.com/c/pay/cs_test_1"}

\* The request arrives: the body is validated against CheckoutRequest, then
\* the handler reads the credential and rejects the request without one.
Arrive(r, b) ==
    /\ pc[r] = "idle"
    /\ body' = [body EXCEPT ![r] = b]
    /\ IF ~ValidBody(b)
       THEN /\ result' = [result EXCEPT ![r] =
                            HttpResult(422, [detail |-> "Field required"])]
            /\ pc' = [pc EXCEPT ![r] = "done"]
            /\ UNCHANGED <<payload, stripe_secret>>
       ELSE /\ payload' = [payload EXCEPT ![r] = CheckoutRequest(b)]
            /\ stripe_secret' =
                 [stripe_secret EXCEPT ![r] = Getenv(env, "STRIPE_SECRET_KEY")]
            /\ IF NotConfigured(stripe_secret'[r])
               THEN /\ result' = [result EXCEPT ![r] =
                                    HttpResult(400, [detail |-> NotConfiguredDetail])]
                    /\ pc' = [pc EXCEPT ![r] = "done"]
               ELSE /\ pc' = [pc EXCEPT ![r] = "import"]
                    /\ UNCHANGED result
    /\ UNCHANGED <<env, stripe_api_key, api_key_writer, line_items, success_url,
                   cancel_url, exc, calls>>
    /\ UNCHANGED testVars

\* import stripe; stripe.api_key = stripe_secret
ImportStripe(r) ==
    /\ pc[r] = "import"
    /\ stripe_api_key' = stripe_secret[r]
    /\ api_key_writer' = r
    /\ pc' = [pc EXCEPT ![r] = "build"]
    /\ UNCHANGED <<env, body, payload, stripe_secret, line_items, success_url,
                   cancel_url, exc, calls, result>>
    /\ UNCHANGED testVars

\* import stripe raises: the package is not installed
ImportStripeFails(r) ==
    /\ pc[r] = "import"
    /\ exc' = [exc EXCEPT ![r] = <<StripeMissing>>]
    /\ pc' = [pc EXCEPT ![r] = "except"]
    /\ UNCHANGED <<env, stripe_api_key, api_key_writer, body, payload, stripe_secret,
                   line_items, success_url, cancel_url, calls, result>>
    /\ UNCHANGED testVars

BuildLineItems(r) ==
    /\ pc[r] = "build"
    /\ line_items' = [line_items EXCEPT ![r] = LineItems(payload[r])]
    /\ pc' = [pc EXCEPT ![r] = "success_url"]
    /\ UNCHANGED <<env, stripe_api_key, api_key_writer, body, payload, stripe_secret,
                   success_url, cancel_url, exc, calls, result>>
    /\ UNCHANGED testVars

ResolveSuccessUrl(r) ==
    /\ pc[r] = "success_url"
    /\ success_url' = [success_url EXCEPT ![r] =
            ResolveUrl(payload[r].success_url,
                       GetenvDefault(env, "FRONTEND_URL", FrontendDefault),
                       "/?checkout=success")]
    /\ pc' = [pc EXCEPT ![r] = "cancel_url"]
    /\ UNCHANGED <<env, stripe_api_key, api_key_writer, body, payload, stripe_secret,
                   line_items, cancel_url, exc, calls, result>>
    /\ UNCHANGED testVars

ResolveCancelUrl(r) ==
    /\ pc[r] = "cancel_url"
    /\ cancel_url' = [cancel_url EXCEPT ![r] =
            ResolveUrl(payload[r].cancel_url,
                       GetenvDefault(env, "FRONTEND_URL", FrontendDefault),
                       "/?checkout=cancelled")]
    /\ pc' = [pc EXCEPT ![r] = "create"]
    /\ UNCHANGED <<env, stripe_api_key, api_key_writer, body, payload, stripe_secret,
                   line_items, success_url, exc, calls, result>>
    /\ UNCHANGED testVars

\* The arguments of stripe.checkout.Session.create, with the credential the
\* library takes from stripe.api_key when the call is made (and the request
\* that assigned it), and the URL of the session it returns (None: it raises).
SessionCreate(r, url) ==
    [api_key              |-> stripe_api_key,
     api_key_set_by       |-> api_key_writer,
     payment_method_types |-> <<"card">>,
     mode                 |-> "payment",
     line_items           |-> line_items[r],
     success_url          |-> success_url[r],
     cancel_url           |-> cancel_url[r],
     session_url          |-> url]

\* session = stripe.checkout.Session.create(...); return {"url": session.url}
CreateSession(r) ==
    /\ pc[r] = "create"
    /\ \E url \in SessionUrls :
         /\ calls' = [calls EXCEPT ![r] = Append(@, SessionCreate(r, url))]
         /\ result' = [result EXCEPT ![r] = HttpResult(200, [url |-> url])]
    /\ pc' = [pc EXCEPT ![r] = "done"]
    /\ UNCHANGED <<env, stripe_api_key, api_key_writer, body, payload, stripe_secret,
                   line_items, success_url, cancel_url, exc>>
    /\ UNCHANGED testVars

\* stripe.checkout.Session.create(...) raises
CreateSessionFails(r) ==
    /\ pc[r] = "create"
    /\ \E e \in ProviderErrors :
         /\ calls' = [calls EXCEPT ![r] = Append(@, SessionCreate(r, None))]
         /\ exc' = [exc EXCEPT ![r] = <<e>>]
    /\ pc' = [pc EXCEPT ![r] = "except"]
    /\ UNCHANGED <<env, stripe_api_key, api_key_writer, body, payload, stripe_secret,
                   line_items, success_url, cancel_url, result>>
    /\ UNCHANGED testVars

\* except Exception as e: raise HTTPException(status_code=500, detail=str(e));
\* an exception the clause does not catch leaves the handler and the server
\* answers with its own 500 page.
HandleException(r) ==
    /\ pc[r] = "except"
    /\ result' = [result EXCEPT ![r] =
            IF Catches(exc[r][1])
            THEN HttpResult(500, [detail |-> Str(exc[r][1])])
            ELSE HttpResult(500, [uncaught |-> exc[r][1].class])]
    /\ pc' = [pc EXCEPT ![r] = "done"]
    /\ UNCHANGED <<env, stripe_api_key, api_key_writer, body, payload, stripe_secret,
                   line_items, success_url, cancel_url, exc, calls>>
    /\ UNCHANGED testVars

\* The response is sent; the request's locals are discarded.
Respond(r) ==
    /\ pc[r] = "done"
    /\ pc' = [pc EXCEPT ![r] = "idle"]
    /\ body' = [body EXCEPT ![r] = NoBody]
    /\ payload' = [payload EXCEPT ![r] = NoPayload]
    /\ stripe_secret' = [stripe_secret EXCEPT ![r] = None]
    /\ line_items' = [line_items EXCEPT ![r] = <<>>]
    /\ success_url' = [success_url EXCEPT ![r] = None]
    /\ cancel_url' = [cancel_url EXCEPT ![r] = None]
    /\ exc' = [exc EXCEPT ![r] = <<>>]
    /\ calls' = [calls EXCEPT ![r] = <<>>]
    /\ result' = [result EXCEPT ![r] = <<>>]
    /\ UNCHANGED <<env, stripe_api_key, api_key_writer>>
    /\ UNCHANGED testVars

\* The process environment is changed while the server runs.
EnvChange(name, v) ==
    /\ v \in EnvValues(name)
    /\ v # env[name]
    /\ env' = [env EXCEPT ![name] = v]
    /\ UNCHANGED checkoutVars
    /\ UNCHANGED testVars

(***************************************************************************)
(* test_database (GET /test)                                               *)
(***************************************************************************)
SliceLimit == 10

ErrorLimit == 50

\* an error text of n characters
RECURSIVE Text(_)
Text(n) == IF n = 0 THEN "" ELSE Text(n - 1) \o ToString(n % 10)

\* n collection names, ascending or descending
Names(n, ascending) ==
    [i \in 1..n |-> "c" \o ToString(IF ascending THEN i ELSE n + 1 - i)]

ErrLens == 0..MaxErrLen

\* What `from database import db` can raise.
ImportFailures ==
    {[class |-> "ModuleNotFoundError", msg |-> "No module named 'database'"],
     [class |-> "ImportError", msg |-> "cannot import name 'db' from 'database'"]}
    \cup {[class |-> "RuntimeError", msg |-> Text(n)] : n \in ErrLens}

\* An initialized db handle: has a name attribute or not; enumeration works
\* (names) or raises (list_exc).
Handles ==
    {[has_name |-> h, name |-> "shopdb", list_exc |-> <<>>, names |-> Names(n, a)] :
        h \in BOOLEAN, n \in 0..MaxCollections, a \in BOOLEAN}
    \cup
    {[has_name |-> h, name |-> "shopdb",
      list_exc |-> <<[class |-> "RuntimeError", msg |-> Text(n)]>>, names |-> <<>>] :
        h \in BOOLEAN, n \in ErrLens}

Databases ==
    {[import_exc |-> <<e>>, db |-> <<>>] : e \in ImportFailures}
    \cup {[import_exc |-> <<>>, db |-> <<>>]}
    \cup {[import_exc |-> <<>>, db |-> <<h>>] : h \in Handles}

NoDatabase == [import_exc |-> <<>>, db |-> <<>>]

InitialResponse ==
    [backend           |-> "[ok] Running",
     database          |-> "[x] Not Available",
     database_url      |-> None,
     database_name     |-> None,
     connection_status |-> "Not Connected",
     collections       |-> <<>>]

\* the value echoed in place of the marker
EnvEcho(v) == IF Truthy(v) THEN v ELSE "[x] Not Set"

\* "Set" if os.getenv(...) else "Not Set"
EnvMarker(v) == IF Truthy(v) THEN "[ok] Set" ELSE "[x] Not Set"

\* collections[:11]
FirstEleven(collections) == SlicePrefix(collections, SliceLimit + 1)

\* collections[:10]
FirstCollections(collections) == SlicePrefix(collections, SliceLimit)

\* str(e) without the slice
WholeError(e) == Str(e)

\* str(e)[:50]
ShortError(e) == SlicePrefix(Str(e), ErrorLimit)

\* the clauses in the other order: `except Exception` before `except ImportError`
OuterClauseSwapped(e) ==
    IF IsInstance(e, "Exception") THEN "Exception"
    ELSE IF IsInstance(e, "ImportError") THEN "ImportError"
    ELSE "none"

\* only the `except ImportError` clause
OuterClauseImportOnly(e) ==
    IF IsInstance(e, "ImportError") THEN "ImportError" ELSE "none"

\* Which clause of the outer try handles e: `except ImportError`, then
\* `except Exception`.
OuterClause(e) ==
    IF IsInstance(e, "ImportError") THEN "ImportError"
    ELSE IF IsInstance(e, "Exception") THEN "Exception"
    ELSE "none"

\* The outer handlers, run on an exception e raised inside the outer try.
OuterExcept(e) ==
    CASE OuterClause(e) = "ImportError" ->
            /\ response' = [response EXCEPT !.database =
                    "[x] Database module not found (run enable-database first)"]
            /\ tpc' = "env"
            /\ UNCHANGED test_result
      [] OuterClause(e) = "Exception" ->
            /\ response' = [response EXCEPT !.database = "[x] Error: " \o ShortError(e)]
            /\ tpc' = "env"
            /\ UNCHANGED test_result
      [] OTHER ->
            /\ test_result' = HttpResult(500, [uncaught |-> e.class])
            /\ tpc' = "returned"
            /\ UNCHANGED response

\* response = {...}
TestBegin ==
    /\ tpc \in {"idle", "returned"}
    /\ response' = InitialResponse
    /\ list_calls' = 0
    /\ test_result' = <<>>
    /\ tpc' = "import"
    /\ UNCHANGED <<env, database>>
    /\ UNCHANGED checkoutVars

\* from database import db
TestImport ==
    /\ tpc = "import"
    /\ IF database.import_exc = <<>>
       THEN tpc' = "check" /\ UNCHANGED <<response, test_result>>
       ELSE OuterExcept(database.import_exc[1])
    /\ UNCHANGED <<env, database, list_calls>>
    /\ UNCHANGED checkoutVars

\* if db is not None: ... else: ...
TestCheckDb ==
    /\ tpc = "check"
    /\ IF database.db # <<>>
       THEN /\ response' = [response EXCEPT
                    !.database = "[ok] Available",
                    !.database_url = "[ok] Configured",
                    !.database_name = IF database.db[1].has_name
                                      THEN database.db[1].name
                                      ELSE "[ok] Connected",
                    !.connection_status = "Connected"]
            /\ tpc' = "list"
       ELSE /\ response' = [response EXCEPT
                    !.database = "[!]  Available but not initialized"]
            /\ tpc' = "env"
    /\ UNCHANGED <<env, database, list_calls, test_result>>
    /\ UNCHANGED checkoutVars

\* the inner try: db.list_collection_names(), with its `except Exception`
TestListCollections ==
    /\ tpc = "list"
    /\ list_calls' = list_calls + 1
    /\ IF database.db[1].list_exc = <<>>
       THEN /\ response' = [response EXCEPT
                    !.collections = FirstCollections(database.db[1].names),
                    !.database = "[ok] Connected & Working"]
            /\ tpc' = "env"
            /\ UNCHANGED test_result
       ELSE IF IsInstance(database.db[1].list_exc[1], "Exception")
            THEN /\ response' = [response EXCEPT !.database =
                        "[!]  Connected but Error: "
                            \o ShortError(database.db[1].list_exc[1])]
                 /\ tpc' = "env"
                 /\ UNCHANGED test_result
            ELSE OuterExcept(database.db[1].list_exc[1])
    /\ UNCHANGED <<env, database>>
    /\ UNCHANGED checkoutVars

\* Check environment variables
TestEnv ==
    /\ tpc = "env"
    /\ response' = [response EXCEPT
            !.database_url = EnvMarker(Getenv(env, "DATABASE_URL")),
            !.database_name = EnvMarker(Getenv(env, "DATABASE_NAME"))]
    /\ tpc' = "return"
    /\ UNCHANGED <<env, database, list_calls, test_result>>
    /\ UNCHANGED checkoutVars

\* return response
TestReturn ==
    /\ tpc = "return"
    /\ test_result' = HttpResult(200, response)
    /\ tpc' = "returned"
    /\ UNCHANGED <<env, database, response, list_calls>>
    /\ UNCHANGED checkoutVars

(***************************************************************************)
(* Specifications                                                          *)
(***************************************************************************)
Envs(names) ==
    {e \in [EnvNames -> UNION {EnvValues(n) : n \in EnvNames}] :
        \A n \in EnvNames : IF n \in names THEN e[n] \in EnvValues(n) ELSE e[n] = None}

CheckoutInit ==
    /\ stripe_api_key = None
    /\ api_key_writer = 0
    /\ pc = [r \in Reqs |-> "idle"]
    /\ body = [r \in Reqs |-> NoBody]
    /\ payload = [r \in Reqs |-> NoPayload]
    /\ stripe_secret = [r \in Reqs |-> None]
    /\ line_items = [r \in Reqs |-> <<>>]
    /\ success_url = [r \in Reqs |-> None]
    /\ cancel_url = [r \in Reqs |-> None]
    /\ exc = [r \in Reqs |-> <<>>]
    /\ calls = [r \in Reqs |-> <<>>]
    /\ result = [r \in Reqs |-> <<>>]

TestInit ==
    /\ tpc = "idle"
    /\ response = InitialResponse
    /\ list_calls = 0
    /\ test_result = <<>>

CheckoutEnvNames == {"STRIPE_SECRET_KEY", "FRONTEND_URL"}

\* The steps of create_checkout_session after the request has arrived.
Step(r) ==
    \/ ImportStripe(r)
    \/ ImportStripeFails(r)
    \/ BuildLineItems(r)
    \/ ResolveSuccessUrl(r)
    \/ ResolveCancelUrl(r)
    \/ CreateSession(r)
    \/ CreateSessionFails(r)
    \/ HandleException(r)
    \/ Respond(r)

\* One POST /checkout/create-session at a time, any body.
Init ==
    /\ env \in Envs(CheckoutEnvNames)
    /\ CheckoutInit
    /\ database = NoDatabase
    /\ TestInit

Next ==
    \/ \E b \in Bodies : Arrive(1, b)
    \/ Step(1)
    \/ \E n \in CheckoutEnvNames : \E v \in EnvValues(n) : EnvChange(n, v)

Spec == Init /\ [][Next]_vars

\* Concurrent POST /checkout/create-session requests.
ConcBodies ==
    {RawBody(<<RawWidget>>, Absent, Absent, Absent),
     RawBody(<<RawGadget>>, "eur", "https://shop.example/thanks", Absent)}

InitConc ==
    /\ env \in Envs({"STRIPE_SECRET_KEY"})
    /\ CheckoutInit
    /\ database = NoDatabase
    /\ TestInit

NextConc ==
    \/ \E r \in Reqs : \E b \in ConcBodies : Arrive(r, b)
    \/ \E r \in Reqs : Step(r)
    \/ \E v \in EnvValues("STRIPE_SECRET_KEY") : EnvChange("STRIPE_SECRET_KEY", v)

SpecConc == InitConc /\ [][NextConc]_vars

\* GET /test against every state of the database module.
InitTest ==
    /\ env \in Envs({"DATABASE_URL", "DATABASE_NAME"})
    /\ CheckoutInit
    /\ database \in Databases
    /\ TestInit

NextTest ==
    \/ TestBegin
    \/ TestImport
    \/ TestCheckDb
    \/ TestListCollections
    \/ TestEnv
    \/ TestReturn

SpecTest == InitTest /\ [][NextTest]_vars

(***************************************************************************)
(* Claims about create_checkout_session                                    *)
(***************************************************************************)
Arrives(r) == pc[r] = "idle" /\ pc'[r] # "idle"

CredentialAbsent == env["STRIPE_SECRET_KEY"] \in {None, ""}

Rejected400(r) ==
    /\ pc'[r] = "done"
    /\ result'[r] # <<>>
    /\ result'[r][1].status = 400
    /\ calls'[r] = <<>>

\* C1 as stated: whenever the credential is absent or empty, a request -
\* whatever its body - ends with HTTP 400 and makes no provider call.
C1_AnyBody400 ==
    [][\A r \in Reqs : (Arrives(r) /\ CredentialAbsent) => Rejected400(r)]_vars

\* C1, amended: whenever the credential is absent or empty, a request whose
\* body validates as a CheckoutRequest ends with HTTP 400 and makes no
\* provider call (and none later: a finished request takes no further step
\* but the sending of its response).
C1_ValidBody400 ==
    [][\A r \in Reqs :
        /\ (Arrives(r) /\ CredentialAbsent /\ ValidBody(body'[r])) => Rejected400(r)
        /\ (pc[r] = "done" /\ calls[r] = <<>>) => calls'[r] = <<>>]_vars

C1_Witness ==
    \E r \in Reqs :
        /\ pc[r] = "done"
        /\ ValidBody(body[r])
        /\ Len(body[r].items) = 2
        /\ env["STRIPE_SECRET_KEY"] = ""
        /\ stripe_secret[r] = ""
        /\ result[r][1].status = 400
        /\ calls[r] = <<>>

\* C2: every provider call carries exactly one line item per item of the
\* request, in the request's order, the i-th with the i-th item's name,
\* unit_amount and quantity and the request's currency.
C2_LineItemsMirrorItems ==
    \A r \in Reqs : \A k \in 1..Len(calls[r]) :
        LET sent  == calls[r][k].line_items
            items == payload[r].items
        IN  /\ Len(sent) = Len(items)
            /\ Len(items) = Len(body[r].items)
            /\ \A i \in 1..Len(items) :
                /\ sent[i].price_data.product_data.name = body[r].items[i].name
                /\ sent[i].price_data.unit_amount = body[r].items[i].unit_amount
                /\ sent[i].quantity = items[i].quantity
                /\ sent[i].price_data.currency = payload[r].currency

C2_Witness ==
    \E r \in Reqs :
        /\ Len(calls[r]) = 1
        /\ Len(calls[r][1].line_items) = 2
        /\ calls[r][1].line_items[1].price_data.product_data.name = "Gadget"
        /\ calls[r][1].line_items[1].price_data.unit_amount = 0
        /\ calls[r][1].line_items[2].price_data.product_data.name = "Widget"
        /\ calls[r][1].line_items[2].quantity = 2

FrontendBase ==
    IF env["FRONTEND_URL"] # None THEN env["FRONTEND_URL"] ELSE "http://localhost:3000"

\* The redirect URL of C3 as stated: the caller's value whenever present.
UrlAsStated(supplied, marker) ==
    IF supplied # None THEN supplied ELSE FrontendBase \o marker

\* The redirect URL of C3, amended: the caller's value when present and not empty.
UrlAmended(supplied, marker) ==
    IF supplied # None /\ supplied # "" THEN supplied ELSE FrontendBase \o marker

PassedToProvider(r) ==
    (pc[r] = "create" /\ calls'[r] # calls[r]) =>
        /\ calls'[r][Len(calls'[r])].success_url = success_url[r]
        /\ calls'[r][Len(calls'[r])].cancel_url = cancel_url[r]

\* C3 as stated: a success_url / cancel_url present in the request is passed
\* to the provider unchanged, an omitted one is <frontend_base>/?checkout=...
C3_PresentUnchanged ==
    [][\A r \in Reqs :
        /\ (pc[r] = "success_url" /\ pc'[r] = "cancel_url") =>
              success_url'[r] = UrlAsStated(payload[r].success_url, "/?checkout=success")
        /\ (pc[r] = "cancel_url" /\ pc'[r] = "create") =>
              cancel_url'[r] = UrlAsStated(payload[r].cancel_url, "/?checkout=cancelled")
        /\ PassedToProvider(r)]_vars

\* C3, amended: a success_url / cancel_url that is present and not the empty
\* string is passed to the provider unchanged; an omitted or empty one is
\* <frontend_base>/?checkout=success (resp. cancelled), frontend_base being
\* the value of FRONTEND_URL when the variable is set and
\* http://localhost:3000 otherwise.
C3_NonEmptyUnchanged ==
    [][\A r \in Reqs :
        /\ (pc[r] = "success_url" /\ pc'[r] = "cancel_url") =>
              success_url'[r] = UrlAmended(payload[r].success_url, "/?checkout=success")
        /\ (pc[r] = "cancel_url" /\ pc'[r] = "create") =>
              cancel_url'[r] = UrlAmended(payload[r].cancel_url, "/?checkout=cancelled")
        /\ PassedToProvider(r)]_vars

C3_Witness ==
    \E r \in Reqs :
        /\ Len(calls[r]) = 1
        /\ payload[r].success_url = None
        /\ payload[r].cancel_url = "https://shop.example/cart"
        /\ env["FRONTEND_URL"] = None
        /\ calls[r][1].success_url = "http://localhost:3000/?checkout=success"
        /\ calls[r][1].cancel_url = "https://shop.example/cart"

ProviderSucceeded(r) ==
    calls[r] # <<>> /\ calls[r][Len(calls[r])].session_url # None

\* C4: a finished request that found the credential configured ends with
\* HTTP 500 and detail str(e) when an error e was raised while building the
\* payload or calling the provider, and with {url: <provider-issued URL>} as
\* its only field exactly when the provider call succeeded.
C4_FailureIs500 ==
    \A r \in Reqs :
        (pc[r] = "done" /\ ValidBody(body[r]) /\ stripe_secret[r] \notin {None, ""}) =>
            /\ result[r] # <<>>
            /\ exc[r] # <<>> =>
                  result[r][1] = [status |-> 500, body |-> [detail |-> exc[r][1].msg]]
            /\ result[r][1].status = 200 <=> ProviderSucceeded(r)
            /\ ProviderSucceeded(r) =>
                  result[r][1].body = [url |-> calls[r][Len(calls[r])].session_url]
            /\ result[r][1].status \in {200, 500}

C4_Witness ==
    \E r \in Reqs :
        /\ pc[r] = "done"
        /\ exc[r] # <<>>
        /\ exc[r][1].class = "ModuleNotFoundError"
        /\ calls[r] = <<>>
        /\ result[r][1].status = 500
        /\ result[r][1].body = [detail |-> "No module named 'stripe'"]

\* C7 as stated: requests share no mutable state, so the credential in effect
\* for a request's provider call (the value of stripe.api_key the library
\* reads when the call is made) is the one that same request read from the
\* environment.
C7_OwnCredentialInEffect ==
    \A r \in Reqs : \A k \in 1..Len(calls[r]) :
        calls[r][k].api_key = stripe_secret[r]

(***************************************************************************)
(* Claims about test_database                                              *)
(***************************************************************************)
DiagnosticKeys == {"backend", "database", "database_url", "database_name",
                   "connection_status", "collections"}

Answered == test_result # <<>>

ImportFailed ==
    /\ database.import_exc # <<>>
    /\ database.import_exc[1].class \in {"ImportError", "ModuleNotFoundError"}

Uninitialized == database.import_exc = <<>> /\ database.db = <<>>

Initialized == database.import_exc = <<>> /\ database.db # <<>>

EnumerationWorks == Initialized /\ database.db[1].list_exc = <<>>

EnumerationFails == Initialized /\ database.db[1].list_exc # <<>>

\* C5: GET /test runs to completion in every state of the database module
\* and its result is HTTP 200 with the diagnostic mapping.
C5_TestAlways200 ==
    /\ Answered =>
          /\ test_result[1].status = 200
          /\ DOMAIN test_result[1].body = DiagnosticKeys
    /\ tpc = "returned" => Answered
    /\ tpc \notin {"idle", "returned"} =>
          ENABLED (TestImport \/ TestCheckDb \/ TestListCollections
                      \/ TestEnv \/ TestReturn)

C5_Witness ==
    /\ tpc = "returned"
    /\ database.import_exc # <<>>
    /\ database.import_exc[1].class = "RuntimeError"
    /\ Len(database.import_exc[1].msg) > ErrorLimit
    /\ test_result[1].status = 200

\* C6: the collections field of a response holds the first min(n, 10) of the
\* n names a successful enumeration returns, in order, and is empty otherwise.
C6_AtMostTenCollections ==
    (Answered /\ test_result[1].status = 200) =>
        LET shown == test_result[1].body.collections
        IN  /\ Len(shown) <= 10
            /\ IF EnumerationWorks
               THEN /\ Len(shown) = Min(Len(database.db[1].names), 10)
                    /\ \A i \in 1..Len(shown) : shown[i] = database.db[1].names[i]
               ELSE shown = <<>>

C6_Witness ==
    /\ Answered
    /\ EnumerationWorks
    /\ Len(database.db[1].names) = 12
    /\ database.db[1].names[1] = "c12"
    /\ Len(test_result[1].body.collections) = 10
    /\ test_result[1].body.collections[10] = "c3"

ErrorPrefix == "[!]  Connected but Error: "

\* C8: when enumeration fails on an initialized handle the response keeps
\* connection_status "Connected", has no collections and reports the error
\* with at most its first 50 characters; when it works the database field is
\* "Connected & Working" and the names are reported.
C8_EnumerationReport ==
    (Answered /\ test_result[1].status = 200) =>
        LET r == test_result[1].body
        IN  /\ EnumerationFails =>
                LET text == database.db[1].list_exc[1].msg
                    kept == Len(r.database) - Len(ErrorPrefix)
                IN  /\ r.connection_status = "Connected"
                    /\ r.collections = <<>>
                    /\ kept >= 0 /\ kept <= 50
                    /\ kept = 50 \/ kept = Len(text)
                    /\ r.database = ErrorPrefix \o SubSeq(text, 1, kept)
            /\ EnumerationWorks =>
                /\ r.database = "[ok] Connected & Working"
                /\ r.connection_status = "Connected"
                /\ Len(database.db[1].names) <= 10 => r.collections = database.db[1].names

C8_Witness ==
    /\ Answered
    /\ EnumerationFails
    /\ Len(database.db[1].list_exc[1].msg) = 52
    /\ Len(test_result[1].body.database) = Len(ErrorPrefix) + 50
    /\ test_result[1].body.connection_status = "Connected"

\* C9: when the import fails with ImportError the database field reports
\* "module not found", and when the handle is None it reports "Available but
\* not initialized"; in both cases nothing is enumerated, connection_status
\* stays "Not Connected" and collections stays empty.
C9_NoHandleNoProbe ==
    /\ (ImportFailed \/ Uninitialized) =>
          /\ list_calls = 0
          /\ response.connection_status = "Not Connected"
          /\ response.collections = <<>>
    /\ (Answered /\ ImportFailed) =>
          test_result[1].body.database =
              "[x] Database module not found (run enable-database first)"
    /\ (Answered /\ Uninitialized) =>
          test_result[1].body.database = "[!]  Available but not initialized"

C9_Witness ==
    /\ Answered
    /\ database.import_exc # <<>>
    /\ database.import_exc[1].class = "ModuleNotFoundError"
    /\ test_result[1].body.connection_status = "Not Connected"
    /\ list_calls = 0

IsSet(name) == env[name] # None /\ env[name] # ""

\* C10: database_url and database_name of a response are the "Set" or the
\* "Not Set" marker according to whether DATABASE_URL / DATABASE_NAME is set
\* and not empty, whatever the state of the database handle; they are never
\* the variable's value nor the handle's name.
C10_PresenceOnly ==
    (Answered /\ test_result[1].status = 200) =>
        LET r == test_result[1].body
        IN  /\ r.database_url = IF IsSet("DATABASE_URL") THEN "[ok] Set" ELSE "[x] Not Set"
            /\ r.database_name = IF IsSet("DATABASE_NAME") THEN "[ok] Set" ELSE "[x] Not Set"
            /\ r.database_url # env["DATABASE_URL"]
            /\ r.database_name # env["DATABASE_NAME"]
            /\ Initialized => r.database_name # database.db[1].name

C10_Witness ==
    /\ Answered
    /\ Initialized
    /\ database.db[1].has_name
    /\ env["DATABASE_NAME"] = "shopdb"
    /\ env["DATABASE_URL"] = None
    /\ test_result[1].body.database_name = "[ok] Set"
    /\ test_result[1].body.database_url = "[x] Not Set"

====
